---- MODULE Spec2Model ----
(***************************************************************************)
(* Model of the ai-tutor teaching session: TutorBotService (the stage      *)
(* state machine and the per-turn orchestration) and SyllabusGenerator     *)
(* (the generate / edit pipeline and its validator).                       *)
(*                                                                         *)
(* Python dicts are records with a `keys` field holding the keys that are  *)
(* present, so that `k in d` and d.get(k, default) are computed.  Texts    *)
(* are sequences of words; lower() and the substring test are computed on  *)
(* them.                                                                  *)
(*                                                                         *)
(* The service never reads the transcript it is handed, it only appends    *)
(* to it: an operation receives a list of earlier entries, and             *)
(* chat_history is that list after the operation (appended to in place).   *)
(* `last` records the operation that has just returned: its inputs, the    *)
(* state it started from, the model calls it made and how it ended.  The   *)
(* interface then goes back to waiting for the next event (Idle).          *)
(***************************************************************************)
EXTENDS Integers, Sequences, FiniteSets, TLC

(***************************************************************************)
(* Bounds of the model.                                                    *)
(***************************************************************************)
\* Largest number of stages of a syllabus handed to the tutor.
MaxStages == 3
\* Largest number of earlier entries in a transcript handed to the service.
MaxHistory == 1
\* Largest number of chat sessions model.start_chat() hands out in a run.
MaxChats == 3

(***************************************************************************)
(* Texts.                                                                  *)
(***************************************************************************)
NoText == << >>

\* str.lower(), word by word.
LowerWord(w) ==
    CASE w = "Next" -> "next"
      [] w = "NEXT" -> "next"
      [] w = "Stage" -> "stage"
      [] w = "STAGE" -> "stage"
      [] w = "Previous" -> "previous"
      [] w = "Start" -> "start"
      [] w = "Teaching" -> "teaching"
      [] w = "End" -> "end"
      [] w = "Generate" -> "generate"
      [] w = "Syllabus" -> "syllabus"
      [] OTHER -> w

lower(text) == [i \in DOMAIN text |-> LowerWord(text[i])]

\* Python's `needle in hay` on strings.
InText(needle, hay) ==
    \E i \in 1..(Len(hay) - Len(needle) + 1) :
        SubSeq(hay, i, i + Len(needle) - 1) = needle

NEXT_STAGE == <<"next", "stage">>
PREVIOUS_STAGE == <<"previous", "stage">>
START_TEACHING == <<"start", "teaching">>
END_TEACHING == <<"end", "teaching">>
START_STAGE == <<"start", "stage">>

\* What a learner may type, and what an admin may send.
UserTexts == { <<"hello">>, <<"next", "stage">> }
AdminTexts == { <<"Next", "Stage">>, <<"previous", "stage">>,
                <<"Start", "Teaching">>, <<"start", "teaching", "now">>,
                <<"status">> }

(***************************************************************************)
(* Syllabus objects.                                                       *)
(***************************************************************************)
StageFields == {"stage_id", "stage_description", "judge_media_allowed",
                "target", "teaching_knowledge", "judge_question",
                "judge_answer"}
SyllabusFields == {"syllabus_name", "target_audience", "syllabus"}

\* A stage dict.  judge_media_allowed and teaching_knowledge hold the list
\* when the value is a list (jma_is_list, tk_is_list), else a scalar.  An
\* element of the stage list that is not a dict has another type t, and its
\* keys are what `field in stage` finds in it.
Stage(name, i) ==
    [t |-> "dict", keys |-> StageFields, stage_id |-> i, stage_description |-> name,
     jma_is_list |-> TRUE, judge_media_allowed |-> <<"text">>,
     tk_is_list |-> TRUE, teaching_knowledge |-> <<"fact">>]

\* The `null` that _create_prompt embeds when there is no stage.
NoStage ==
    [t |-> "none", keys |-> {}, stage_id |-> 0, stage_description |-> "",
     jma_is_list |-> FALSE, judge_media_allowed |-> << >>,
     tk_is_list |-> FALSE, teaching_knowledge |-> << >>]

Syllabus(name, n) ==
    [t |-> "dict", keys |-> SyllabusFields, syllabus_name |-> name,
     is_list |-> TRUE, syllabus |-> [i \in 1..n |-> Stage(name, i)],
     error |-> ""]

\* Python None.
None ==
    [t |-> "none", keys |-> {}, syllabus_name |-> "", is_list |-> FALSE,
     syllabus |-> << >>, error |-> ""]

\* Python truthiness of None / a dict.
Truthy(o) == o.t = "dict" /\ o.keys # {}

\* The syllabi main.py can hand to set_syllabus: syllabus_name present and
\* a non-empty list of stages.
TeachableSyllabi == { Syllabus("A", n) : n \in 1..MaxStages }

\* Syllabus dicts whose current stage cannot be resolved: set_syllabus
\* itself takes any dict.
NoStagesKey == [Syllabus("A", 0) EXCEPT !.keys = @ \ {"syllabus"}]
StagesNotAList == [Syllabus("A", 0) EXCEPT !.is_list = FALSE]
NoStages == Syllabus("A", 0)
UnresolvableSyllabi == { NoStagesKey, StagesNotAList, NoStages }

\* len(self.syllabus_info["syllabus"])
NumStages(o) == Len(o.syllabus)

(***************************************************************************)
(* Prompts, chat sessions, model replies.                                  *)
(***************************************************************************)
Prompt(input_type, input_content, stage) ==
    [input_type |-> input_type, input_content |-> input_content,
     stage |-> stage, syllabus |-> None]

NoPrompt == Prompt("", NoText, NoStage)

\* self.chat_session: id 0 is None; `first` is the kind of the first message
\* the session holds ("" while empty) and `primed` the syllabus of a system
\* prompt sent first.
NoSession == [id |-> 0, first |-> "", primed |-> None]

\* What the model may do with a turn prompt: the call raises ("fail"), or it
\* returns text that is not JSON ("garbled"), JSON that is not an object
\* ("value"), or a JSON object with some of the response fields.
ResponseFields == {"stage_id", "response_type", "is_pass", "response_content"}

Reply(fmt, ks, rt, pass) ==
    [fmt |-> fmt, keys |-> ks, response_type |-> rt, is_pass |-> pass]

FAIL == Reply("fail", {}, "", FALSE)
GARBLED == Reply("garbled", {}, "", FALSE)
VALUE == Reply("value", {}, "", FALSE)
JUDGE_PASS == Reply("object", ResponseFields, "judge", TRUE)
JUDGE_FAIL == Reply("object", ResponseFields, "judge", FALSE)
EXPLAIN == Reply("object", ResponseFields, "explain", FALSE)
TEACH == Reply("object", ResponseFields, "teach", FALSE)
NO_CONTENT == Reply("object", ResponseFields \ {"response_content"}, "explain", FALSE)
JUDGE_NO_VERDICT == Reply("object", ResponseFields \ {"is_pass"}, "judge", FALSE)
CHAT == Reply("object", ResponseFields, "chat", FALSE)

\* Replies to the primary call of a turn, and to a synthesized teach,
\* greeting or closing call.
TurnReplies == {FAIL, GARBLED, VALUE, JUDGE_PASS, JUDGE_FAIL, EXPLAIN, NO_CONTENT,
                JUDGE_NO_VERDICT, CHAT}
TeachReplies == {FAIL, GARBLED, VALUE, TEACH, JUDGE_PASS, NO_CONTENT}

\* A displayed text: a fixed message, or the response_content the model gave
\* to a prompt.
Msg(m) == [msg |-> m, prompt |-> NoPrompt]
ContentOf(prompt) == [msg |-> "content", prompt |-> prompt]

GUIDANCE == Msg("Please set a syllabus before starting the teaching session. Go back to the 'Generate Syllabus' tab and generate one first.")
GUIDANCE_START == Msg("Please generate a syllabus first before starting the teaching session.")
STAGE_ERROR == Msg("There was an error retrieving the current stage information. Please try again or generate a new syllabus.")
WELCOME == Msg("Welcome to the teaching session! Let's get started.")
LETS_BEGIN == Msg("Let's begin learning about this stage.")
FAREWELL == Msg("Thank you for completing the teaching session! I hope you learned a lot.")
APOLOGY == Msg("I encountered an error processing your request. Please try again.")
EMPTY == Msg("")

\* The text of a reply: a JSON object is a dict whose response_content is
\* the content the model wrote for that prompt.
ReplyText(reply, prompt) ==
    [fmt |-> reply.fmt, keys |-> reply.keys,
     response_type |-> reply.response_type, is_pass |-> reply.is_pass,
     response_content |-> IF reply.fmt = "object" /\ "response_content" \in reply.keys
                          THEN ContentOf(prompt) ELSE EMPTY]

\* The literal JSON text _send_message_to_model returns when the call raises.
ERROR_RESPONSE_TEXT ==
    [fmt |-> "object", keys |-> ResponseFields, response_type |-> "explain",
     is_pass |-> FALSE, response_content |-> APOLOGY]

\* json.loads: "" when the text parses, else the exception it raises.
json_loads_error(text) ==
    IF text.fmt \in {"object", "value"} THEN "" ELSE "JSONDecodeError"

\* d.get(...) on the parsed value raises AttributeError unless it is a dict.
IsDict(text) == text.fmt = "object"

GetContent(d) == IF "response_content" \in d.keys THEN d.response_content ELSE EMPTY
GetType(d) == IF "response_type" \in d.keys THEN d.response_type ELSE ""
GetIsPass(d) == IF "is_pass" \in d.keys THEN d.is_pass ELSE FALSE

(***************************************************************************)
(* State.                                                                  *)
(***************************************************************************)
VARIABLES
    syllabus_info,          \* TutorBotService.syllabus_info
    current_stage_index,    \* TutorBotService.current_stage_index (0-based)
    is_teaching_started,    \* TutorBotService.is_teaching_started
    chat_session,           \* TutorBotService.chat_session
    chats,                  \* number of sessions model.start_chat() has made
    chat_history,           \* the transcript list of the operation in `last`
    last,                   \* the operation that has just returned, if any
    validation,             \* the response _validate_response has just judged
    document_url,           \* SyllabusGenerator.document_url ("" is None)
    document_uploaded,      \* SyllabusGenerator.document_uploaded
    current_syllabus,       \* SyllabusGenerator.current_syllabus
    gen_last,               \* the generator operation that has just returned
    turns,                  \* per worker thread: the process_message call it runs
    syllabus_ready,         \* main.py: gr.State syllabus_ready
    syllabus_data,          \* main.py: gr.State syllabus_data
    syllabus_found_in       \* the kind of chat message syllabus_data was read from

tutor_vars == <<syllabus_info, current_stage_index, is_teaching_started,
                chat_session, chat_history, chats, last, validation>>
generator_vars == <<document_url, document_uploaded, current_syllabus, gen_last,
                    syllabus_ready, syllabus_data, syllabus_found_in>>
vars == <<tutor_vars, generator_vars, turns>>

\* The service object together with the transcript and the bookkeeping of
\* one operation: the model calls it made, the exception it raised ("" when
\* it returned), and the stage_updated flag it returned ("none" for None).
Machine(history) ==
    [syllabus_info |-> syllabus_info,
     current_stage_index |-> current_stage_index,
     is_teaching_started |-> is_teaching_started,
     chat_session |-> chat_session,
     chat_history |-> history,
     chats |-> chats,
     calls |-> << >>,
     raised |-> "",
     stage_updated |-> "none"]

Entry(learner, shown) == [learner |-> learner, shown |-> shown]

append(m, learner, shown) ==
    [m EXCEPT !.chat_history = Append(@, Entry(learner, shown))]

raise(m, exc) == [m EXCEPT !.raised = exc]

(***************************************************************************)
(* TutorBotService helpers.                                                *)
(***************************************************************************)
\* Mutant: a send whose call raises is made a second time.
_send_message_to_model_retrying(m, message, is_system, reply) ==
    LET m1 == IF m.chat_session.id = 0
              THEN [m EXCEPT !.chat_session = [NoSession EXCEPT !.id = m.chats + 1],
                             !.chats = @ + 1]
              ELSE m
        call == [session |-> m1.chat_session.id, prompt |-> message,
                 is_system |-> is_system, reply |-> reply,
                 first |-> m1.chat_session.first, primed |-> m1.chat_session.primed]
    IN  IF reply.fmt = "fail"
        THEN [m |-> [m1 EXCEPT !.calls = @ \o <<call, call>>],
              text |-> ERROR_RESPONSE_TEXT]
        ELSE LET sess == IF m1.chat_session.first = ""
                         THEN [m1.chat_session EXCEPT
                                 !.first = IF is_system THEN "system" ELSE "turn",
                                 !.primed = IF is_system THEN message.syllabus ELSE None]
                         ELSE m1.chat_session
             IN  [m |-> [m1 EXCEPT !.chat_session = sess,
                                   !.calls = Append(@, [call EXCEPT !.first = sess.first,
                                                                    !.primed = sess.primed])],
                  text |-> ReplyText(reply, message)]

\* Mutant: every send opens a chat session of its own.
_send_message_to_model_on_new_session(m, message, is_system, reply) ==
    LET m1 == [m EXCEPT !.chat_session = [NoSession EXCEPT !.id = m.chats + 1],
                        !.chats = @ + 1]
        ok == reply.fmt # "fail"
        sess == IF ok /\ m1.chat_session.first = ""
                THEN [m1.chat_session EXCEPT
                        !.first = IF is_system THEN "system" ELSE "turn",
                        !.primed = IF is_system THEN message.syllabus ELSE None]
                ELSE m1.chat_session
        call == [session |-> m1.chat_session.id, prompt |-> message,
                 is_system |-> is_system, reply |-> reply,
                 first |-> sess.first, primed |-> sess.primed]
    IN  [m |-> [m1 EXCEPT !.chat_session = sess, !.calls = Append(@, call)],
         text |-> IF ok THEN ReplyText(reply, message) ELSE ERROR_RESPONSE_TEXT]

\* _send_message_to_model: creates a session when there is none, sends on
\* it, and turns any exception into the fixed error JSON text.
_send_message_to_model(m, message, is_system, reply) ==
    LET m1 == IF m.chat_session.id = 0
              THEN [m EXCEPT !.chat_session = [NoSession EXCEPT !.id = m.chats + 1],
                             !.chats = @ + 1]
              ELSE m
        ok == reply.fmt # "fail"
        sess == IF ok /\ m1.chat_session.first = ""
                THEN [m1.chat_session EXCEPT
                        !.first = IF is_system THEN "system" ELSE "turn",
                        !.primed = IF is_system THEN message.syllabus ELSE None]
                ELSE m1.chat_session
        call == [session |-> m1.chat_session.id, prompt |-> message,
                 is_system |-> is_system, reply |-> reply,
                 first |-> sess.first, primed |-> sess.primed]
    IN  [m |-> [m1 EXCEPT !.chat_session = sess, !.calls = Append(@, call)],
         text |-> IF ok THEN ReplyText(reply, message) ELSE ERROR_RESPONSE_TEXT]

\* Mutant: a stage list that is missing, not a list or empty is not noticed.
_get_current_stage_info_unchecked(m) ==
    IF ~Truthy(m.syllabus_info)
    THEN [m |-> m, found |-> FALSE, info |-> NoStage]
    ELSE IF "syllabus" \notin m.syllabus_info.keys
            \/ ~m.syllabus_info.is_list \/ m.syllabus_info.syllabus = << >>
    THEN [m |-> m, found |-> TRUE, info |-> NoStage]
    ELSE LET n == NumStages(m.syllabus_info)
             m1 == IF m.current_stage_index >= n
                   THEN [m EXCEPT !.current_stage_index = n - 1]
                   ELSE m
             i == m1.current_stage_index
         IN  IF i >= 0
             THEN [m |-> m1, found |-> TRUE, info |-> m1.syllabus_info.syllabus[i + 1]]
             ELSE IF i >= -n
             THEN [m |-> m1, found |-> TRUE,
                   info |-> m1.syllabus_info.syllabus[n + i + 1]]
             ELSE [m |-> m1, found |-> FALSE, info |-> NoStage]

\* Mutant: an index past the end is reset to the first stage.
_get_current_stage_info_resetting_to_first(m) ==
    IF ~Truthy(m.syllabus_info)
    THEN [m |-> m, found |-> FALSE, info |-> NoStage]
    ELSE IF "syllabus" \notin m.syllabus_info.keys
    THEN [m |-> m, found |-> FALSE, info |-> NoStage]
    ELSE IF ~m.syllabus_info.is_list \/ m.syllabus_info.syllabus = << >>
    THEN [m |-> m, found |-> FALSE, info |-> NoStage]
    ELSE LET n == NumStages(m.syllabus_info)
             m1 == IF m.current_stage_index >= n
                   THEN [m EXCEPT !.current_stage_index = 0]
                   ELSE m
             i == m1.current_stage_index
         IN  IF i >= 0
             THEN [m |-> m1, found |-> TRUE, info |-> m1.syllabus_info.syllabus[i + 1]]
             ELSE IF i >= -n
             THEN [m |-> m1, found |-> TRUE,
                   info |-> m1.syllabus_info.syllabus[n + i + 1]]
             ELSE [m |-> m1, found |-> FALSE, info |-> NoStage]

\* _get_current_stage_info: None (found = FALSE) when the stage cannot be
\* resolved; an index past the end is reset to the last stage.  A negative
\* index counts from the end of the list, and raises IndexError (caught:
\* None) when it is below -len.
_get_current_stage_info(m) ==
    IF ~Truthy(m.syllabus_info)
    THEN [m |-> m, found |-> FALSE, info |-> NoStage]
    ELSE IF "syllabus" \notin m.syllabus_info.keys
    THEN [m |-> m, found |-> FALSE, info |-> NoStage]
    ELSE IF ~m.syllabus_info.is_list \/ m.syllabus_info.syllabus = << >>
    THEN [m |-> m, found |-> FALSE, info |-> NoStage]
    ELSE LET n == NumStages(m.syllabus_info)
             m1 == IF m.current_stage_index >= n
                   THEN [m EXCEPT !.current_stage_index = n - 1]
                   ELSE m
             i == m1.current_stage_index
         IN  IF i >= 0
             THEN [m |-> m1, found |-> TRUE, info |-> m1.syllabus_info.syllabus[i + 1]]
             ELSE IF i >= -n
             THEN [m |-> m1, found |-> TRUE,
                   info |-> m1.syllabus_info.syllabus[n + i + 1]]
             ELSE [m |-> m1, found |-> FALSE, info |-> NoStage]

_create_prompt(input_type, input_content, current_stage_info) ==
    Prompt(input_type, input_content, current_stage_info)

_create_system_prompt(m) ==
    [Prompt("system", NoText, NoStage) EXCEPT !.syllabus = m.syllabus_info]

\* Mutant: a teach text that does not parse is appended as it is.
teach_stage_showing_raw_text(m, reply) ==
    LET g == _get_current_stage_info(m)
        s == _send_message_to_model(
                 g.m, _create_prompt("admin", START_STAGE, g.info), FALSE, reply)
    IN  IF json_loads_error(s.text) # ""
        THEN append(s.m, NoText, [msg |-> "raw text", prompt |-> s.m.calls[Len(s.m.calls)].prompt])
        ELSE IF ~IsDict(s.text) THEN raise(s.m, "AttributeError")
        ELSE append(s.m, NoText, GetContent(s.text))

\* Mutant: the teach content is not appended to the transcript.
teach_stage_unshown(m, reply) ==
    LET g == _get_current_stage_info(m)
        s == _send_message_to_model(
                 g.m, _create_prompt("admin", START_STAGE, g.info), FALSE, reply)
    IN  IF json_loads_error(s.text) # "" THEN s.m
        ELSE IF ~IsDict(s.text) THEN raise(s.m, "AttributeError")
        ELSE s.m

\* The synthesized "start stage" call of process_message, with its
\* try / except json.JSONDecodeError around the parse.
teach_stage(m, reply) ==
    LET g == _get_current_stage_info(m)
        s == _send_message_to_model(
                 g.m, _create_prompt("admin", START_STAGE, g.info), FALSE, reply)
    IN  IF json_loads_error(s.text) # "" THEN s.m
        ELSE IF ~IsDict(s.text) THEN raise(s.m, "AttributeError")
        ELSE append(s.m, NoText, GetContent(s.text))

\* Mutant: only the admin command advances the stage.
advance_condition_by_admin_only(m, input_type, input_content, response_type, is_pass) ==
    input_type = "admin" /\ InText(NEXT_STAGE, lower(input_content))

\* Mutant: a judge response advances whatever its is_pass says.
advance_condition_ignoring_is_pass(m, input_type, input_content, response_type, is_pass) ==
    \/ input_type = "admin" /\ InText(NEXT_STAGE, lower(input_content))
    \/ /\ response_type = "judge"
       /\ m.current_stage_index < NumStages(m.syllabus_info) - 1

\* The condition of the advance branch (process_message, first `if`).
advance_condition(m, input_type, input_content, response_type, is_pass) ==
    \/ input_type = "admin" /\ InText(NEXT_STAGE, lower(input_content))
    \/ /\ response_type = "judge"
       /\ is_pass
       /\ m.current_stage_index < NumStages(m.syllabus_info) - 1

\* The condition of the retreat branch (the `elif`).
retreat_condition(m, input_type, input_content) ==
    /\ input_type = "admin"
    /\ InText(PREVIOUS_STAGE, lower(input_content))
    /\ m.current_stage_index > 0

\* Mutant: the response to every admin text is shown.
show_response_to_every_admin_text(m, input_type, input_content, response_content) ==
    IF input_type = "user"
    THEN append(m, input_content, response_content)
    ELSE append(m, NoText, response_content)

\* The visibility rule for the primary response of a turn.
show_response(m, input_type, input_content, response_content) ==
    IF input_type = "user"
    THEN append(m, input_content, response_content)
    ELSE IF input_type = "admin"
            /\ lower(input_content) \notin {START_TEACHING, END_TEACHING}
    THEN m
    ELSE append(m, NoText, response_content)

\* The stage progression part of process_message.
handle_stage_progression(m, input_type, input_content, response_type, is_pass, reply2) ==
    IF advance_condition(m, input_type, input_content, response_type, is_pass)
    THEN LET m1 == [m EXCEPT !.current_stage_index = @ + 1,
                             !.stage_updated = "true"]
         IN  IF m1.current_stage_index < NumStages(m1.syllabus_info)
             THEN teach_stage(m1, reply2)
             ELSE m1
    ELSE IF retreat_condition(m, input_type, input_content)
    THEN teach_stage([m EXCEPT !.current_stage_index = @ - 1,
                               !.stage_updated = "true"], reply2)
    ELSE m

\* Mutant: the guard is missing.
no_syllabus_unchecked(m) == FALSE

\* The guard at the top of process_message and start_teaching.
no_syllabus(m) == ~Truthy(m.syllabus_info)

\* _validate_response, which no operation of the service calls.  The last
\* block reads the current stage to log a stage_id that differs from it: it
\* rejects nothing, but len() of a 'syllabus' that is not a list (a scalar
\* here) and .get on a stage that is not a dict raise.  It gives the service
\* after it, the exception that escaped it ("" when it returned) and the
\* boolean it returned.
_validate_response(m, response) ==
    IF \E f \in {"stage_id", "response_type", "response_content"} :
           f \notin response.keys
    THEN [m |-> m, raised |-> "", valid |-> FALSE]
    ELSE IF response.response_type \notin {"teach", "explain", "judge", "greet"}
    THEN [m |-> m, raised |-> "", valid |-> FALSE]
    ELSE IF response.response_type = "judge" /\ "is_pass" \notin response.keys
    THEN [m |-> m, raised |-> "", valid |-> FALSE]
    ELSE IF response.response_type = "teach" /\ response.response_content = EMPTY
    THEN [m |-> m, raised |-> "", valid |-> FALSE]
    ELSE IF ~Truthy(m.syllabus_info) \/ "syllabus" \notin m.syllabus_info.keys
    THEN [m |-> m, raised |-> "", valid |-> TRUE]
    ELSE IF ~m.syllabus_info.is_list
    THEN [m |-> m, raised |-> "TypeError", valid |-> FALSE]
    ELSE LET n == NumStages(m.syllabus_info)
             i == m.current_stage_index
         IN  IF i >= n THEN [m |-> m, raised |-> "", valid |-> TRUE]
             ELSE IF i < -n THEN [m |-> m, raised |-> "IndexError", valid |-> FALSE]
             ELSE IF m.syllabus_info.syllabus[IF i >= 0 THEN i + 1 ELSE n + i + 1].t # "dict"
             THEN [m |-> m, raised |-> "AttributeError", valid |-> FALSE]
             ELSE [m |-> m, raised |-> "", valid |-> TRUE]

(***************************************************************************)
(* TutorBotService operations, as functions of the machine.                *)
(***************************************************************************)
set_syllabus(m, syllabus) ==
    [m EXCEPT !.syllabus_info = syllabus,
              !.current_stage_index = 0,
              !.is_teaching_started = FALSE]

process_message(m, input_type, input_content, reply1, reply2) ==
    IF no_syllabus(m)
    THEN append(m, IF input_type = "user" THEN input_content ELSE NoText, GUIDANCE)
    ELSE LET g == _get_current_stage_info(m) IN
    IF ~g.found
    THEN append(g.m, IF input_type = "user" THEN input_content ELSE NoText, STAGE_ERROR)
    ELSE LET s == _send_message_to_model(
                      g.m, _create_prompt(input_type, input_content, g.info),
                      FALSE, reply1) IN
    IF json_loads_error(s.text) # "" THEN raise(s.m, json_loads_error(s.text))
    ELSE IF ~IsDict(s.text) THEN raise(s.m, "AttributeError")
    ELSE LET m1 == show_response(s.m, input_type, input_content, GetContent(s.text))
             m2 == [m1 EXCEPT !.stage_updated = "false"]
         IN  handle_stage_progression(m2, input_type, input_content,
                                      GetType(s.text), GetIsPass(s.text), reply2)

\* Mutant: the chat session of an earlier attempt is kept when there is one.
reset_for_start_reusing_session(m) ==
    IF m.chat_session.id # 0
    THEN [m EXCEPT !.current_stage_index = 0, !.is_teaching_started = TRUE]
    ELSE [m EXCEPT !.current_stage_index = 0,
                   !.is_teaching_started = TRUE,
                   !.chat_session = [NoSession EXCEPT !.id = m.chats + 1],
                   !.chats = @ + 1]

\* The start of start_teaching: reset to the first stage and open a new
\* chat session.
reset_for_start(m) ==
    [m EXCEPT !.current_stage_index = 0,
              !.is_teaching_started = TRUE,
              !.chat_session = [NoSession EXCEPT !.id = m.chats + 1],
              !.chats = @ + 1]

\* Mutant: a greeting or teach text that does not parse adds no entry.
start_teaching_without_fallbacks(m, reply0, reply1, reply2) ==
    IF no_syllabus(m)
    THEN append(m, NoText, GUIDANCE_START)
    ELSE LET m1 == reset_for_start(m)
             s0 == _send_message_to_model(m1, _create_system_prompt(m1), TRUE, reply0)
             g  == _get_current_stage_info(s0.m)
             s1 == _send_message_to_model(
                       g.m, _create_prompt("admin", START_TEACHING, g.info),
                       FALSE, reply1)
             m2 == IF json_loads_error(s1.text) # ""
                   THEN s1.m
                   ELSE IF ~IsDict(s1.text) THEN raise(s1.m, "AttributeError")
                   ELSE append(s1.m, NoText, GetContent(s1.text))
             s2 == _send_message_to_model(
                       m2, _create_prompt("admin", START_STAGE, g.info),
                       FALSE, reply2)
         IN  IF m2.raised # "" THEN m2
             ELSE IF json_loads_error(s2.text) # ""
             THEN IF g.found THEN s2.m
                  ELSE raise(s2.m, "AttributeError")
             ELSE IF ~IsDict(s2.text) THEN raise(s2.m, "AttributeError")
             ELSE append(s2.m, NoText, GetContent(s2.text))

start_teaching(m, reply0, reply1, reply2) ==
    IF no_syllabus(m)
    THEN append(m, NoText, GUIDANCE_START)
    ELSE LET m1 == reset_for_start(m)
             s0 == _send_message_to_model(m1, _create_system_prompt(m1), TRUE, reply0)
             g  == _get_current_stage_info(s0.m)
             s1 == _send_message_to_model(
                       g.m, _create_prompt("admin", START_TEACHING, g.info),
                       FALSE, reply1)
             m2 == IF json_loads_error(s1.text) # ""
                   THEN append(s1.m, NoText, WELCOME)
                   ELSE IF ~IsDict(s1.text) THEN raise(s1.m, "AttributeError")
                   ELSE append(s1.m, NoText, GetContent(s1.text))
             s2 == _send_message_to_model(
                       m2, _create_prompt("admin", START_STAGE, g.info),
                       FALSE, reply2)
         IN  IF m2.raised # "" THEN m2
             ELSE IF json_loads_error(s2.text) # ""
             THEN IF g.found THEN append(s2.m, NoText, LETS_BEGIN)
                  ELSE raise(s2.m, "AttributeError")
             ELSE IF ~IsDict(s2.text) THEN raise(s2.m, "AttributeError")
             ELSE append(s2.m, NoText, GetContent(s2.text))

\* Mutant: the started flag is left as it was.
end_teaching_keeping_started(m, reply) ==
    IF ~m.is_teaching_started
    THEN m
    ELSE LET s == _send_message_to_model(
                      m, _create_prompt("admin", END_TEACHING, NoStage), FALSE, reply)
         IN  IF json_loads_error(s.text) # ""
             THEN append(s.m, NoText, FAREWELL)
             ELSE IF ~IsDict(s.text) THEN raise(s.m, "AttributeError")
             ELSE append(s.m, NoText, GetContent(s.text))

end_teaching(m, reply) ==
    IF ~m.is_teaching_started
    THEN m
    ELSE LET s == _send_message_to_model(
                      m, _create_prompt("admin", END_TEACHING, NoStage), FALSE, reply)
         IN  IF json_loads_error(s.text) # ""
             THEN [append(s.m, NoText, FAREWELL) EXCEPT !.is_teaching_started = FALSE]
             ELSE IF ~IsDict(s.text) THEN raise(s.m, "AttributeError")
             ELSE [append(s.m, NoText, GetContent(s.text))
                      EXCEPT !.is_teaching_started = FALSE]

(***************************************************************************)
(* GeminiService: the text the model returns and the parsing fallbacks.    *)
(*                                                                         *)
(* A model text is a sequence of tokens: an opening brace, a closing       *)
(* brace, a run of prose without braces, the members of a JSON object, or  *)
(* a JSON number.                                                          *)
(***************************************************************************)
Tok(c) == [c |-> c, o |-> None]
OPEN == Tok("{")
CLOSE == Tok("}")
PROSE == Tok("prose")
NUMBER == Tok("42")
Members(o) == [c |-> "members", o |-> o]

\* The JSON number 42 as a Python value.
Number == [None EXCEPT !.t = "number"]

\* {"error": msg}
ErrorDict(msg) == [None EXCEPT !.t = "dict", !.keys = {"error"}, !.error = msg]

\* json.dumps of a dict, and of the number.
Serialize(o) == IF o.t = "number" THEN <<NUMBER>> ELSE <<OPEN, Members(o), CLOSE>>

\* The model's favourite wrappings of a JSON document.
Fenced(o) == <<PROSE>> \o Serialize(o) \o <<PROSE>>
BracedProse(o) == <<OPEN, PROSE, CLOSE>> \o Serialize(o)

\* json.loads: ok and the value, or not ok (json.JSONDecodeError).
json_loads(text) ==
    IF text = <<NUMBER>> THEN [ok |-> TRUE, value |-> Number]
    ELSE IF Len(text) = 3 /\ text[1] = OPEN /\ text[2].c = "members" /\ text[3] = CLOSE
    THEN [ok |-> TRUE, value |-> text[2].o]
    ELSE [ok |-> FALSE, value |-> None]

\* str.find and str.rfind of one character: a 0-based index, or -1.
find(text, tok) ==
    IF \E i \in DOMAIN text : text[i] = tok
    THEN (CHOOSE i \in DOMAIN text :
              text[i] = tok /\ \A j \in DOMAIN text : text[j] = tok => i <= j) - 1
    ELSE -1

rfind(text, tok) ==
    IF \E i \in DOMAIN text : text[i] = tok
    THEN (CHOOSE i \in DOMAIN text :
              text[i] = tok /\ \A j \in DOMAIN text : text[j] = tok => j <= i) - 1
    ELSE -1

\* text[a:b] for 0 <= a, 0 <= b.
slice(text, a, b) == SubSeq(text, a + 1, b)

\* The fallback parse of both pipelines: the whole text, then the text from
\* the first opening brace to the last closing brace.
parse_response_text(response_text) ==
    IF json_loads(response_text).ok THEN json_loads(response_text).value
    ELSE LET json_start == find(response_text, OPEN)
             json_end == rfind(response_text, CLOSE) + 1
         IN  IF json_start # -1 /\ json_end # -1
             THEN LET json_content == slice(response_text, json_start, json_end)
                  IN  IF json_loads(json_content).ok
                      THEN json_loads(json_content).value
                      ELSE ErrorDict("Could not parse extracted content as JSON")
             ELSE ErrorDict("Could not find JSON content in response")

\* What one model.generate_content call does: it raises, or returns a text.
CallFails == [raises |-> TRUE, text |-> << >>]
Returns(text) == [raises |-> FALSE, text |-> text]

\* The schema-constrained attempt followed by the schema-less fallback
\* (the body of generate_syllabus_from_document and update_syllabus from
\* "First try using structured output").  `calls` counts the model calls.
structured_then_fallback(first, second, failed) ==
    IF ~first.raises /\ json_loads(first.text).ok
    THEN [value |-> json_loads(first.text).value, calls |-> 1]
    ELSE IF second.raises
    THEN [value |-> ErrorDict(failed), calls |-> 2]
    ELSE [value |-> parse_response_text(second.text), calls |-> 2]

\* generate_syllabus_from_document: _get_mime_type_from_url raises TypeError
\* on a None url, before any call is made.
generate_syllabus_from_document(url, first, second) ==
    IF url = ""
    THEN [raised |-> "TypeError", value |-> None, calls |-> 0]
    ELSE LET r == structured_then_fallback(first, second, "Failed to generate syllabus")
         IN  [raised |-> "", value |-> r.value, calls |-> r.calls]

update_syllabus(syllabus, user_message, first, second) ==
    LET r == structured_then_fallback(first, second, "Failed to update syllabus")
    IN  [raised |-> "", value |-> r.value, calls |-> r.calls]

(***************************************************************************)
(* SyllabusGenerator.                                                      *)
(***************************************************************************)
\* Truthiness of a Python value held in current_syllabus.
TruthyValue(o) == o.t = "number" \/ Truthy(o)

\* `"error" in value`: a membership test on a dict, TypeError on a number.
HasError(o) == "error" \in o.keys

\* The fields in the order _validate_syllabus tests them.
required_fields == <<"syllabus_name", "target_audience", "syllabus">>
stage_fields == <<"stage_id", "stage_description", "judge_media_allowed",
                  "target", "teaching_knowledge", "judge_question",
                  "judge_answer">>

\* The first field of the list that is not a key of the dict ("" if none):
\* the field the `for field in ...` loop returns on.
FirstMissing(fields, keys) ==
    IF \A k \in DOMAIN fields : fields[k] \in keys THEN ""
    ELSE fields[CHOOSE k \in DOMAIN fields :
                    /\ fields[k] \notin keys
                    /\ \A j \in 1..(k - 1) : fields[j] \in keys]

\* An error message of the validator: its text, and the stage number and
\* field the text is formatted with (0 and "" when it has none).
ErrorMessage(text, stage, field) == [text |-> text, stage |-> stage, field |-> field]

\* The None _validate_syllabus returns for a syllabus it accepts.
NoError == ErrorMessage("", 0, "")

\* An exception that escapes the checks, to the except clause.
Raises(exc) == [text |-> "raise", stage |-> 0, field |-> exc]

\* Mutant: only the presence of the fields is checked.
validate_stage_fields_only(stage, i) ==
    IF stage.t \in {"number", "none"} THEN Raises("TypeError")
    ELSE IF FirstMissing(stage_fields, stage.keys) # ""
    THEN ErrorMessage("Stage {i+1} is missing required field: {field}", i,
                      FirstMissing(stage_fields, stage.keys))
    ELSE NoError

\* The checks of one stage, in the order of the loop body.  `field not in
\* stage` raises TypeError on a number or null and is a substring or element
\* test on a string or list; stage["judge_media_allowed"] raises TypeError
\* on a string or list.
validate_stage(stage, i) ==
    IF stage.t \in {"number", "none"} THEN Raises("TypeError")
    ELSE IF FirstMissing(stage_fields, stage.keys) # ""
    THEN ErrorMessage("Stage {i+1} is missing required field: {field}", i,
                      FirstMissing(stage_fields, stage.keys))
    ELSE IF stage.t # "dict" THEN Raises("TypeError")
    ELSE IF ~stage.jma_is_list
    THEN ErrorMessage("Stage {i+1}: 'judge_media_allowed' must be a list", i, "")
    ELSE IF ~stage.tk_is_list
    THEN ErrorMessage("Stage {i+1}: 'teaching_knowledge' must be a list", i, "")
    ELSE NoError

\* The try block of _validate_syllabus: NoError (None) for a syllabus it
\* accepts, the message it returns, or the exception that escapes it.  A
\* value that is not a dict makes `field not in syllabus` raise.
validate_checks(syllabus) ==
    IF syllabus.t # "dict" THEN Raises("TypeError")
    ELSE IF FirstMissing(required_fields, syllabus.keys) # ""
    THEN ErrorMessage("Missing required field: {field}", 0,
                      FirstMissing(required_fields, syllabus.keys))
    ELSE IF ~syllabus.is_list
    THEN ErrorMessage("The 'syllabus' field must be a list of stages", 0, "")
    ELSE IF \A i \in DOMAIN syllabus.syllabus :
               validate_stage(syllabus.syllabus[i], i) = NoError
    THEN NoError
    ELSE LET i == CHOOSE k \in DOMAIN syllabus.syllabus :
                      /\ validate_stage(syllabus.syllabus[k], k) # NoError
                      /\ \A j \in 1..(k - 1) :
                             validate_stage(syllabus.syllabus[j], j) = NoError
         IN  validate_stage(syllabus.syllabus[i], i)

\* Mutant: the validator without its except clause.
_validate_syllabus_uncaught(syllabus) == validate_checks(syllabus)

\* _validate_syllabus: the try block, and the except clause that turns
\* every exception into a message.
_validate_syllabus(syllabus) ==
    IF validate_checks(syllabus).text = "raise"
    THEN ErrorMessage("Validation error: {e}", 0, "")
    ELSE validate_checks(syllabus)

\* re.search(r'generate.*syllabus|create.*syllabus', message.lower())
asks_to_generate(message) ==
    \E i, j \in DOMAIN message :
        /\ i < j
        /\ lower(message)[i] \in {"generate", "create"}
        /\ lower(message)[j] = "syllabus"

\* The generator object.
Generator ==
    [document_url |-> document_url,
     document_uploaded |-> document_uploaded,
     current_syllabus |-> current_syllabus]

\* A chat response: its kind, the syllabus shown in its ```json block and
\* the validator's message it quotes.
ResponseWith(kind, shown, detail) == [kind |-> kind, shown |-> shown, detail |-> detail]
Response(kind, shown) == ResponseWith(kind, shown, NoError)

\* The generate branch of process_message.
generate_branch(g, first, second) ==
    LET r == generate_syllabus_from_document(g.document_url, first, second)
        g1 == [g EXCEPT !.current_syllabus = r.value]
    IN  IF r.raised # ""
        THEN [g |-> g, response |-> Response("Error generating syllabus", None),
              calls |-> r.calls]
        ELSE IF r.value.t # "dict"
        THEN [g |-> g1, response |-> Response("Error generating syllabus", None),
              calls |-> r.calls]
        ELSE IF HasError(r.value)
        THEN [g |-> g1, response |-> Response("Error", None), calls |-> r.calls]
        ELSE [g |-> g1,
              response |-> Response("Generated teaching syllabus", r.value),
              calls |-> r.calls]

\* The update branch of process_message.
update_branch(g, message, first, second) ==
    LET r == update_syllabus(g.current_syllabus, message, first, second)
        g1 == [g EXCEPT !.current_syllabus = r.value]
    IN  IF r.value.t # "dict"
        THEN [g |-> g, response |-> Response("Error updating syllabus", None),
              calls |-> r.calls]
        ELSE IF HasError(r.value)
        THEN [g |-> g, response |-> Response("Error", None), calls |-> r.calls]
        ELSE IF _validate_syllabus(r.value).text = "raise"
        THEN [g |-> g1, response |-> Response("Error updating syllabus", None),
              calls |-> r.calls]
        ELSE IF _validate_syllabus(r.value) # NoError
        THEN [g |-> g1,
              response |-> ResponseWith("Error validating updated syllabus", r.value,
                                        _validate_syllabus(r.value)),
              calls |-> r.calls]
        ELSE [g |-> g1,
              response |-> Response("Updated teaching syllabus", r.value),
              calls |-> r.calls]

SyllabusGenerator_process_message(g, message, first, second) ==
    IF ~g.document_uploaded
    THEN [g |-> g, response |-> Response("Please upload a document first", None),
          calls |-> 0]
    ELSE IF asks_to_generate(message)
    THEN generate_branch(g, first, second)
    ELSE IF TruthyValue(g.current_syllabus)
    THEN update_branch(g, message, first, second)
    ELSE [g |-> g, response |-> Response("Please generate a syllabus first", None),
          calls |-> 0]

\* handle_file_upload: no file, an error before the upload, or the upload
\* itself, which returns a url or None ("").
handle_file_upload(g, file, url) ==
    IF file = "none" THEN g
    ELSE IF file = "unreadable" THEN g
    ELSE IF url # ""
    THEN [g EXCEPT !.document_url = url, !.document_uploaded = TRUE]
    ELSE [g EXCEPT !.document_url = url]

\* gen_last while no generator operation has just returned.
GenNothing ==
    [op |-> "idle", message |-> NoText, pre |-> [document_url |-> "",
     document_uploaded |-> FALSE, current_syllabus |-> None],
     first |-> CallFails, second |-> CallFails,
     response |-> Response("", None), calls |-> 0]

(***************************************************************************)
(* The state machine: one action per operation of the service.             *)
(***************************************************************************)
\* The worker threads the server runs handlers on.  No lock guards the
\* service, so two process_message calls may be running at once.
Threads == {"worker 1", "worker 2"}

\* A thread's call: where it is (pc), its arguments, the prompt of the model
\* call it waits for, and the locals of the call (transcript list, calls
\* made, exception, stage_updated).
NoTurn ==
    [pc |-> "idle", input_type |-> "", input_content |-> NoText,
     prompt |-> NoPrompt, chat_history |-> << >>, calls |-> << >>,
     raised |-> "", stage_updated |-> "none"]

\* What `last` keeps of the state an operation started from.
Pre(history) ==
    [syllabus_info |-> syllabus_info,
     current_stage_index |-> current_stage_index,
     is_teaching_started |-> is_teaching_started,
     chat_session |-> chat_session,
     len |-> Len(history),
     chats |-> chats]

Record(learner, op, input_type, input_content, history, m) ==
    [by |-> learner, op |-> op, input_type |-> input_type, input_content |-> input_content,
     pre |-> Pre(history), calls |-> m.calls, raised |-> m.raised,
     stage_updated |-> m.stage_updated]

\* `last` while no operation has just returned.
Nothing ==
    [by |-> "", op |-> "idle", input_type |-> "", input_content |-> NoText,
     pre |-> [syllabus_info |-> None, current_stage_index |-> 0,
              is_teaching_started |-> FALSE, chat_session |-> NoSession,
              len |-> 0, chats |-> 0],
     calls |-> << >>, raised |-> "", stage_updated |-> "none"]

\* The state after an operation that ended in machine m.
Becomes(learner, op, input_type, input_content, history, m) ==
    /\ m.chats <= MaxChats
    /\ syllabus_info' = m.syllabus_info
    /\ current_stage_index' = m.current_stage_index
    /\ is_teaching_started' = m.is_teaching_started
    /\ chat_session' = m.chat_session
    /\ chat_history' = m.chat_history
    /\ chats' = m.chats
    /\ last' = Record(learner, op, input_type, input_content, history, m)
    /\ validation' = validation
    /\ UNCHANGED <<generator_vars, turns>>

Init ==
    /\ syllabus_info = None
    /\ current_stage_index = 0
    /\ is_teaching_started = FALSE
    /\ chat_session = NoSession
    /\ chat_history = << >>
    /\ chats = 0
    /\ last = Nothing
    /\ validation = [response |-> None, raised |-> "", valid |-> FALSE]
    /\ document_url = ""
    /\ document_uploaded = FALSE
    /\ current_syllabus = None
    /\ gen_last = GenNothing
    /\ turns = [t \in Threads |-> NoTurn]
    /\ syllabus_ready = FALSE
    /\ syllabus_data = None
    /\ syllabus_found_in = ""

\* The browser sessions served by the one application create_app builds:
\* every handler of every session is bound to the same TutorBotService.
Learners == {"learner 1", "learner 2"}

\* The interface is waiting for an event.
Waiting == last.op = "idle"

\* An entry already in the transcript when it is handed to the service.
EARLIER == Entry(NoText, Msg("earlier"))

\* The transcripts an operation may be handed.
Transcripts == { [i \in 1..k |-> EARLIER] : k \in 0..MaxHistory }

\* The replies to enumerate for the second model call of a turn whose first
\* call was answered as in m: all of them when the turn makes a second call.
SecondReplies(m) == IF Len(m.calls) >= 2 THEN TeachReplies ELSE {TEACH}

SetSyllabus ==
    /\ Waiting
    /\ \E learner \in Learners :
      \E syllabus \in TeachableSyllabi \cup UnresolvableSyllabi :
           Becomes(learner, "set_syllabus", "", NoText, << >>,
                   set_syllabus(Machine(<< >>), syllabus))

StartTeaching ==
    /\ Waiting
    /\ \E learner \in Learners :
      \E history \in Transcripts, reply0 \in {FAIL, EXPLAIN},
          reply1, reply2 \in TeachReplies :
           Becomes(learner, "start_teaching", "", NoText, history,
                   start_teaching(Machine(history), reply0, reply1, reply2))

UserTurn ==
    /\ Waiting
    /\ \E learner \in Learners :
      \E history \in Transcripts, text \in UserTexts, reply1 \in TurnReplies :
         \E reply2 \in SecondReplies(
                   process_message(Machine(history), "user", text, reply1, TEACH)) :
           Becomes(learner, "process_message", "user", text, history,
                   process_message(Machine(history), "user", text, reply1, reply2))

AdminTurn ==
    /\ Waiting
    /\ \E learner \in Learners :
      \E history \in Transcripts, text \in AdminTexts, reply1 \in TurnReplies :
         \E reply2 \in SecondReplies(
                   process_message(Machine(history), "admin", text, reply1, TEACH)) :
           Becomes(learner, "process_message", "admin", text, history,
                   process_message(Machine(history), "admin", text, reply1, reply2))

EndTeaching ==
    /\ Waiting
    /\ \E learner \in Learners :
      \E history \in Transcripts, reply \in TeachReplies :
           Becomes(learner, "end_teaching", "", NoText, history,
                   end_teaching(Machine(history), reply))

\* The handler has returned and the interface waits for the next event.
Idle ==
    /\ last.op # "idle"
    /\ last' = Nothing
    /\ validation' = [response |-> None, raised |-> "", valid |-> FALSE]
    /\ chat_history' = << >>
    /\ UNCHANGED <<syllabus_info, current_stage_index, is_teaching_started,
                   chat_session, chats>>
    /\ UNCHANGED <<generator_vars, turns>>

Next ==
    \/ Idle
    \/ SetSyllabus
    \/ StartTeaching
    \/ UserTurn
    \/ AdminTurn
    \/ EndTeaching

Spec == Init /\ [][Next]_vars

(***************************************************************************)
(* process_message step by step, as the worker threads run it.  A call     *)
(* blocks in chat_session.send_message; another thread may run meanwhile,  *)
(* and a thread may also be preempted between the test of the advance      *)
(* condition and the assignment to current_stage_index.                    *)
(***************************************************************************)
\* The service as thread t sees it, with the locals of t's call.
ThreadMachine(t) ==
    [syllabus_info |-> syllabus_info,
     current_stage_index |-> current_stage_index,
     is_teaching_started |-> is_teaching_started,
     chat_session |-> chat_session,
     chat_history |-> turns[t].chat_history,
     chats |-> chats,
     calls |-> turns[t].calls,
     raised |-> turns[t].raised,
     stage_updated |-> turns[t].stage_updated]

\* From the entry of process_message to the send: the guards, the stage
\* lookup, the prompt, and the session _send_message_to_model creates when
\* there is none.  The call is then in flight.
enter_turn(m, input_type, input_content) ==
    IF no_syllabus(m)
    THEN [m |-> append(m, IF input_type = "user" THEN input_content ELSE NoText,
                       GUIDANCE),
          pc |-> "returned", prompt |-> NoPrompt]
    ELSE LET g == _get_current_stage_info(m) IN
    IF ~g.found
    THEN [m |-> append(g.m, IF input_type = "user" THEN input_content ELSE NoText,
                       STAGE_ERROR),
          pc |-> "returned", prompt |-> NoPrompt]
    ELSE [m |-> IF g.m.chat_session.id = 0
                THEN [g.m EXCEPT !.chat_session = [NoSession EXCEPT !.id = g.m.chats + 1],
                                 !.chats = @ + 1]
                ELSE g.m,
          pc |-> "sending",
          prompt |-> _create_prompt(input_type, input_content, g.info)]

\* From the model's answer to the test of the stage conditions.
receive_response(m, input_type, input_content, prompt, reply) ==
    LET s == _send_message_to_model(m, prompt, FALSE, reply) IN
    IF json_loads_error(s.text) # ""
    THEN [m |-> raise(s.m, json_loads_error(s.text)), pc |-> "returned"]
    ELSE IF ~IsDict(s.text)
    THEN [m |-> raise(s.m, "AttributeError"), pc |-> "returned"]
    ELSE LET m1 == show_response(s.m, input_type, input_content, GetContent(s.text))
             m2 == [m1 EXCEPT !.stage_updated = "false"]
         IN  IF advance_condition(m2, input_type, input_content,
                                  GetType(s.text), GetIsPass(s.text))
             THEN [m |-> m2, pc |-> "advancing"]
             ELSE IF retreat_condition(m2, input_type, input_content)
             THEN [m |-> m2, pc |-> "retreating"]
             ELSE [m |-> m2, pc |-> "returned"]

\* The assignment to current_stage_index and, when a teach call follows,
\* the prompt of that call, which is then in flight.
move_stage(m, delta) ==
    LET m1 == [m EXCEPT !.current_stage_index = @ + delta,
                        !.stage_updated = "true"]
        g == _get_current_stage_info(m1)
    IN  IF delta = 1 /\ ~(m1.current_stage_index < NumStages(m1.syllabus_info))
        THEN [m |-> m1, pc |-> "returned", prompt |-> NoPrompt]
        ELSE [m |-> g.m, pc |-> "teaching",
              prompt |-> _create_prompt("admin", START_STAGE, g.info)]

\* From the answer to the teach call to the return.
receive_teach_response(m, prompt, reply) ==
    LET s == _send_message_to_model(m, prompt, FALSE, reply)
    IN  IF json_loads_error(s.text) # "" THEN s.m
        ELSE IF ~IsDict(s.text) THEN raise(s.m, "AttributeError")
        ELSE append(s.m, NoText, GetContent(s.text))

\* The state after thread t took a step that ended in machine m.
ThreadBecomes(t, m, pc, input_type, input_content, prompt) ==
    /\ m.chats <= MaxChats
    /\ syllabus_info' = m.syllabus_info
    /\ current_stage_index' = m.current_stage_index
    /\ is_teaching_started' = m.is_teaching_started
    /\ chat_session' = m.chat_session
    /\ chats' = m.chats
    /\ turns' = [turns EXCEPT ![t] =
                    [pc |-> pc, input_type |-> input_type,
                     input_content |-> input_content, prompt |-> prompt,
                     chat_history |-> m.chat_history, calls |-> m.calls,
                     raised |-> m.raised, stage_updated |-> m.stage_updated]]
    /\ UNCHANGED <<chat_history, last, validation, generator_vars>>

\* The inputs and answers of the threaded runs.
ThreadInputs ==
    { <<"user", <<"hello">> >>, <<"admin", <<"Next", "Stage">> >>,
      <<"admin", <<"previous", "stage">> >> }
ThreadReplies == {FAIL, GARBLED, JUDGE_PASS, JUDGE_FAIL}
ThreadTeachReplies == {TEACH, GARBLED}

\* A syllabus is loaded while no turn is running.
Load ==
    /\ \A t \in Threads : turns[t].pc = "idle"
    /\ \E syllabus \in TeachableSyllabi :
         LET m == set_syllabus(Machine(<< >>), syllabus)
         IN  /\ syllabus_info' = m.syllabus_info
             /\ current_stage_index' = m.current_stage_index
             /\ is_teaching_started' = m.is_teaching_started
    /\ UNCHANGED <<chat_session, chats, chat_history, last, validation,
                   generator_vars, turns>>

Enter(t) ==
    /\ turns[t].pc = "idle"
    /\ \E input \in ThreadInputs :
         LET r == enter_turn(ThreadMachine(t), input[1], input[2])
         IN  ThreadBecomes(t, r.m, r.pc, input[1], input[2], r.prompt)

Respond(t) ==
    /\ turns[t].pc = "sending"
    /\ \E reply \in ThreadReplies :
         LET r == receive_response(ThreadMachine(t), turns[t].input_type,
                                   turns[t].input_content, turns[t].prompt, reply)
         IN  ThreadBecomes(t, r.m, r.pc, turns[t].input_type,
                           turns[t].input_content, NoPrompt)

Move(t) ==
    /\ turns[t].pc \in {"advancing", "retreating"}
    /\ LET r == move_stage(ThreadMachine(t),
                           IF turns[t].pc = "advancing" THEN 1 ELSE -1)
       IN  ThreadBecomes(t, r.m, r.pc, turns[t].input_type,
                         turns[t].input_content, r.prompt)

TeachRespond(t) ==
    /\ turns[t].pc = "teaching"
    /\ \E reply \in ThreadTeachReplies :
         ThreadBecomes(t, receive_teach_response(ThreadMachine(t), turns[t].prompt, reply),
                       "returned", turns[t].input_type, turns[t].input_content,
                       NoPrompt)

\* The call returns (or its exception propagates) and the thread is free.
Return(t) ==
    /\ turns[t].pc = "returned"
    /\ turns' = [turns EXCEPT ![t] = NoTurn]
    /\ UNCHANGED <<tutor_vars, generator_vars>>

ThreadNext ==
    \/ Load
    \/ \E t \in Threads : Enter(t)
    \/ \E t \in Threads : Respond(t)
    \/ \E t \in Threads : Move(t)
    \/ \E t \in Threads : TeachRespond(t)
    \/ \E t \in Threads : Return(t)

ThreadSpec == Init /\ [][ThreadNext]_vars

(***************************************************************************)
(* The syllabus generator: one action per operation.                       *)
(***************************************************************************)
\* Objects the model may write: valid syllabi, syllabi the validator
\* rejects, and a JSON document that is not an object.
MissingAudience == [Syllabus("B", 1) EXCEPT !.keys = @ \ {"target_audience"}]
NotAList == [Syllabus("B", 0) EXCEPT !.is_list = FALSE]
EmptyStages == Syllabus("B", 0)
StageMissingQuestion ==
    [Syllabus("B", 2) EXCEPT !.syllabus[2].keys = @ \ {"judge_question"}]
ScalarKnowledge == [Syllabus("B", 1) EXCEPT !.syllabus[1].tk_is_list = FALSE]
ScalarMedia == [Syllabus("B", 1) EXCEPT !.syllabus[1].jma_is_list = FALSE]
MissingName == [Syllabus("B", 1) EXCEPT !.keys = @ \ {"syllabus_name"}]
MissingStages == [Syllabus("B", 0) EXCEPT !.keys = @ \ {"syllabus"}]
\* Stage 1 has a scalar teaching_knowledge and stage 2 lacks two fields.
TwoOffenders ==
    [Syllabus("B", 2) EXCEPT !.syllabus[1].tk_is_list = FALSE,
                             !.syllabus[2].keys = @ \ {"target", "judge_question"}]
\* All seven fields present, the two lists empty.
EmptyLists ==
    [Syllabus("B", 1) EXCEPT !.syllabus[1].judge_media_allowed = << >>,
                             !.syllabus[1].teaching_knowledge = << >>]

\* Stage lists with an element that is not a dict: a number, a string that
\* contains none of the field names, a list of the seven field names.
NumberStage == [Syllabus("B", 1) EXCEPT !.syllabus[1].t = "number",
                                        !.syllabus[1].keys = {}]
TextStage == [Syllabus("B", 1) EXCEPT !.syllabus[1].t = "str",
                                      !.syllabus[1].keys = {}]
FieldListStage == [Syllabus("B", 1) EXCEPT !.syllabus[1].t = "list"]
NotMappings == { NumberStage, TextStage, FieldListStage }

ValidObjects == { Syllabus("A", 1), Syllabus("A", 2), Syllabus("B", 1), EmptyLists }
InvalidObjects == { MissingAudience, NotAList, StageMissingQuestion, ScalarKnowledge,
                    ScalarMedia, MissingName, MissingStages, TwoOffenders }
ModelObjects ==
    ValidObjects \cup InvalidObjects \cup NotMappings \cup { EmptyStages, Number }

\* Texts the model may return.
ModelTexts ==
    { Serialize(o) : o \in ModelObjects }
        \cup { Fenced(o) : o \in { Syllabus("A", 1), StageMissingQuestion } }
        \cup { BracedProse(Syllabus("A", 1)), <<PROSE>>, <<OPEN, PROSE>>,
               <<PROSE, CLOSE>> }

ModelCalls == { CallFails } \cup { Returns(text) : text \in ModelTexts }

\* The second call is enumerated when the first one leads to it.
SecondCalls(first) ==
    IF ~first.raises /\ json_loads(first.text).ok THEN { CallFails } ELSE ModelCalls

\* What the author may type in the syllabus chat.
Messages == { <<"Generate", "a", "syllabus">>, <<"add", "a", "stage">> }

GenWaiting == gen_last.op = "idle"

GenBecomes(op, message, first, second, r) ==
    /\ document_url' = r.g.document_url
    /\ document_uploaded' = r.g.document_uploaded
    /\ current_syllabus' = r.g.current_syllabus
    /\ gen_last' = [op |-> op, message |-> message, pre |-> Generator,
                    first |-> first, second |-> second,
                    response |-> r.response, calls |-> r.calls]
    /\ UNCHANGED <<tutor_vars, turns, syllabus_ready, syllabus_data,
                   syllabus_found_in>>

Upload ==
    /\ GenWaiting
    /\ \E file \in {"none", "unreadable", "document.pdf"},
          url \in {"", "https://s3/docs/1.pdf"} :
           GenBecomes("handle_file_upload", NoText, CallFails, CallFails,
                      [g |-> handle_file_upload(Generator, file, url),
                       response |-> Response("", None), calls |-> 0])

Chat ==
    /\ GenWaiting
    /\ \E message \in Messages, first \in ModelCalls :
         \E second \in SecondCalls(first) :
           GenBecomes("process_message", message, first, second,
                      SyllabusGenerator_process_message(Generator, message, first, second))

\* The handler has returned and the chat waits for the next event.
GenIdle ==
    /\ ~GenWaiting
    /\ gen_last' = GenNothing
    /\ UNCHANGED <<document_url, document_uploaded, current_syllabus>>
    /\ UNCHANGED <<tutor_vars, turns, syllabus_ready, syllabus_data,
                   syllabus_found_in>>

GenNext ==
    \/ GenIdle
    \/ Upload
    \/ Chat

GenSpec == Init /\ [][GenNext]_vars

(***************************************************************************)
(* A session with no admin turns whose user turns are all answered         *)
(* judge / is_pass = true: the syllabus is loaded once, the session is     *)
(* started once, and the learner keeps sending messages.                   *)
(***************************************************************************)
PassingUserTurn ==
    /\ Waiting
    /\ is_teaching_started
    /\ \E learner \in Learners :
      \E history \in Transcripts, text \in UserTexts :
         \E reply2 \in SecondReplies(
                   process_message(Machine(history), "user", text, JUDGE_PASS, TEACH)) :
           Becomes(learner, "process_message", "user", text, history,
                   process_message(Machine(history), "user", text, JUDGE_PASS, reply2))

ProgressNext ==
    \/ syllabus_info = None /\ SetSyllabus
    \/ ~is_teaching_started /\ StartTeaching
    \/ PassingUserTurn
    \/ Idle

\* The session goes on: the learner keeps typing and every handler returns.
\* Some event of the interface can be handled in every state, so the
\* fairness condition says that steps keep being taken, and the steps of
\* this specification are those of ProgressNext.
ProgressSpec == Init /\ [][ProgressNext]_vars /\ WF_vars(Next)

(***************************************************************************)
(* _validate_response applied to the responses a turn may receive, in the  *)
(* states the service gets into by loading syllabi and admin commands.     *)
(***************************************************************************)
\* Turn responses as json.loads gives them: the keys they have and their
\* values.
Responses ==
    [fmt : {"object"},
     keys : {ResponseFields} \cup { ResponseFields \ {f} : f \in ResponseFields },
     stage_id : {1, 2},
     response_type : {"teach", "explain", "judge", "greet", "chat"},
     is_pass : {TRUE},
     response_content : {EMPTY, Msg("text")}]

ValidateResponse ==
    /\ Waiting
    /\ \E learner \in Learners, response \in Responses :
         LET r == _validate_response(Machine(<< >>), response)
         IN  /\ syllabus_info' = r.m.syllabus_info
             /\ current_stage_index' = r.m.current_stage_index
             /\ is_teaching_started' = r.m.is_teaching_started
             /\ chat_session' = r.m.chat_session
             /\ chat_history' = r.m.chat_history
             /\ chats' = r.m.chats
             /\ last' = Record(learner, "_validate_response", "", NoText, << >>,
                               raise(r.m, r.raised))
             /\ validation' = [response |-> response, raised |-> r.raised,
                               valid |-> r.valid]
    /\ UNCHANGED <<generator_vars, turns>>

ResponseNext ==
    \/ SetSyllabus
    \/ AdminTurn
    \/ ValidateResponse
    \/ Idle

ResponseSpec == Init /\ [][ResponseNext]_vars

(***************************************************************************)
(* main.py: from the syllabus chat to the teaching session.                *)
(***************************************************************************)
\* The "basic validation" of check_for_syllabus_and_update_button on the
\* JSON block of a chat message.
basic_validation(syllabus_json) ==
    /\ "syllabus_name" \in syllabus_json.keys
    /\ "syllabus" \in syllabus_json.keys
    /\ syllabus_json.is_list
    /\ Len(syllabus_json.syllabus) > 0

\* check_for_syllabus_and_update_button scans the chat from the newest
\* message back and returns the first ```json block that passes the basic
\* validation: the block of the newest message when it has one that passes,
\* else what the scan of the older messages gives, which is what the states
\* hold since the scan that followed the previous message.
check_for_syllabus_and_update_button(response, older) ==
    IF response.shown # None /\ basic_validation(response.shown)
    THEN [syllabus_ready |-> TRUE, syllabus_data |-> response.shown,
          found_in |-> response.kind]
    ELSE older

\* syllabus_chat.change: the chat has gained the response of the handler in
\* gen_last, the scan runs, and the chat waits for the next event.
CheckForSyllabus ==
    /\ ~GenWaiting
    /\ LET r == check_for_syllabus_and_update_button(
                     gen_last.response,
                     [syllabus_ready |-> syllabus_ready,
                      syllabus_data |-> syllabus_data,
                      found_in |-> syllabus_found_in])
       IN  /\ syllabus_ready' = r.syllabus_ready
           /\ syllabus_data' = r.syllabus_data
           /\ syllabus_found_in' = r.found_in
    /\ gen_last' = GenNothing
    /\ UNCHANGED <<document_url, document_uploaded, current_syllabus>>
    /\ UNCHANGED <<tutor_vars, turns>>

\* handle_start_teaching: the Start Teaching Session button.
HandleStartTeaching ==
    /\ Waiting /\ GenWaiting
    /\ syllabus_ready /\ Truthy(syllabus_data)
    /\ Becomes("learner 1", "set_syllabus", "", NoText, << >>,
               set_syllabus(Machine(<< >>), syllabus_data))

\* The syllabus tab is used until a syllabus is handed to the tutor; what
\* the generator does never depends on the tutor.

AppNext ==
    \/ Waiting /\ syllabus_info = None /\ Upload
    \/ Waiting /\ syllabus_info = None /\ Chat
    \/ CheckForSyllabus
    \/ HandleStartTeaching
    \/ Idle

AppSpec == Init /\ [][AppNext]_vars

(***************************************************************************)
(* Properties.  They are stated on the state an operation returns in:      *)
(* `last` names the operation and the state it started from.               *)
(***************************************************************************)
Turn == last.op = "process_message" /\ Truthy(last.pre.syllabus_info)
AdminSaid(command) ==
    Turn /\ last.input_type = "admin" /\ InText(command, lower(last.input_content))
\* The stage count of the loaded syllabus and the index the turn started at.
N == NumStages(last.pre.syllabus_info)
PreIndex == last.pre.current_stage_index
\* The model's answer to the primary call of the turn.
Answered(reply) == Len(last.calls) >= 1 /\ last.calls[1].reply = reply
AnsweredObject == Len(last.calls) >= 1 /\ last.calls[1].reply.fmt \in {"object", "fail"}
\* The transcript is what the operation was handed plus k appended entries.
Appended(k) ==
    /\ Len(chat_history) = last.pre.len + k
    /\ SubSeq(chat_history, 1, last.pre.len) \in Transcripts
Newest == chat_history[Len(chat_history)]
Min(a, b) == IF a < b THEN a ELSE b
\* The stage the turn resolved: an index past the end is reset to the last.
Resolved == Min(PreIndex, N - 1)

\* C1: an admin turn whose text contains 'next stage', processed at stage
\* i < N-1, leaves the index at i+1; processed at the last stage N-1 it
\* leaves the index at N-1.  (Stated for turns whose model response is
\* well-formed, which is the case most favourable to the claim.)
C1_AdvanceByAdminCommand ==
    (AdminSaid(NEXT_STAGE) /\ AnsweredObject /\ PreIndex <= N - 1)
        => /\ PreIndex < N - 1 => current_stage_index = PreIndex + 1
           /\ PreIndex = N - 1 => current_stage_index = N - 1

\* C2: whenever a syllabus with N >= 1 stages is loaded, the stage index is
\* within 0 .. N-1 in every state between operations.
C2_StageIndexInBounds ==
    (Truthy(syllabus_info) /\ NumStages(syllabus_info) >= 1)
        => /\ 0 <= current_stage_index
           /\ current_stage_index <= NumStages(syllabus_info) - 1

\* C3: a judge response with is_pass = true received while the index is below
\* N-1 advances the index by exactly one in that turn, with one synthesized
\* teach call whose own response does not advance again; with is_pass = false
\* the judge response triggers no transition: the stage changes only when the
\* turn is an admin stage command.
C3_JudgeTransition ==
    /\ (Turn /\ Answered(JUDGE_PASS) /\ PreIndex < N - 1)
         => /\ current_stage_index = PreIndex + 1
            /\ last.stage_updated = "true"
            /\ Len(last.calls) = 2
    /\ (Turn /\ Answered(JUDGE_FAIL))
         => /\ last.stage_updated = "true"
                <=> \/ AdminSaid(NEXT_STAGE)
                    \/ AdminSaid(PREVIOUS_STAGE) /\ Resolved > 0
            /\ last.stage_updated = "false"
                => current_stage_index = Resolved

\* Witness of C3: a learner's answer judged as passed at stage 0 moved the
\* session to stage 1, and the teach call was itself answered judge / pass.
C3_Witness ==
    /\ Turn /\ last.input_type = "user" /\ Answered(JUDGE_PASS)
    /\ PreIndex = 0 /\ N >= 3
    /\ current_stage_index = 1
    /\ Len(last.calls) = 2 /\ last.calls[2].reply = JUDGE_PASS

\* C4: an admin turn whose text contains 'previous stage', processed at stage
\* i > 0, leaves the index at i-1 for every response of the model; at stage 0
\* it leaves 0.  (Stated for well-formed responses.)
C4_RetreatByAdminCommand ==
    (AdminSaid(PREVIOUS_STAGE) /\ AnsweredObject /\ PreIndex <= N - 1)
        => /\ PreIndex > 0 => current_stage_index = PreIndex - 1
           /\ PreIndex = 0 => current_stage_index = 0

\* C5: start_teaching on a loaded syllabus leaves the index at 0, the session
\* started, and a chat session that no earlier state of the run has held.
C5_StartResets ==
    (last.op = "start_teaching" /\ Truthy(last.pre.syllabus_info) /\ N >= 1)
        => /\ current_stage_index = 0
           /\ is_teaching_started
           /\ chat_session.id # 0
           /\ chat_session.id > last.pre.chats

\* Witness of C5: a restart from a later stage of a session that already had
\* a conversation handle.
C5_Witness ==
    /\ last.op = "start_teaching"
    /\ last.pre.current_stage_index >= 1
    /\ last.pre.chat_session.id # 0
    /\ current_stage_index = 0
    /\ chat_session.id # last.pre.chat_session.id

\* C6: when the model's text for a user turn is not parseable, process_message
\* returns normally, the transcript gains exactly one message and the stage
\* index is unchanged.
C6_MalformedOutputIsSoft ==
    (Turn /\ last.input_type = "user" /\ Answered(GARBLED))
        => /\ last.raised = ""
           /\ Appended(1)
           /\ current_stage_index = PreIndex

\* C7: when the model call of a turn fails, process_message does not raise
\* and the stage index after the turn equals its value before, for every
\* actor and every text.
C7_CallFailureKeepsStage ==
    (Turn /\ Answered(FAIL))
        => /\ last.raised = ""
           /\ current_stage_index = PreIndex

\* C8: with no syllabus loaded, process_message appends exactly one fixed
\* guidance message, makes no model call and leaves the index, the started
\* flag and the conversation handle unchanged.
C8_NoSyllabusGuidance ==
    (last.op = "process_message" /\ ~Truthy(last.pre.syllabus_info))
        => /\ Appended(1)
           /\ Newest.shown = GUIDANCE
           /\ last.calls = << >>
           /\ last.raised = ""
           /\ current_stage_index = last.pre.current_stage_index
           /\ is_teaching_started = last.pre.is_teaching_started
           /\ chat_session = last.pre.chat_session
           /\ chats = last.pre.chats

\* Witness of C8: a learner's turn before any syllabus was loaded.
C8_Witness ==
    /\ last.op = "process_message" /\ ~Truthy(last.pre.syllabus_info)
    /\ last.input_type = "user"
    /\ Newest = Entry(last.input_content, GUIDANCE)
    /\ last.pre.len = MaxHistory

\* The generator turn ran an edit on the syllabus that was current.
Edit ==
    /\ gen_last.op = "process_message"
    /\ gen_last.pre.document_uploaded
    /\ ~asks_to_generate(gen_last.message)
    /\ TruthyValue(gen_last.pre.current_syllabus)

\* The generator turn ran a generation.
Generation ==
    /\ gen_last.op = "process_message"
    /\ gen_last.pre.document_uploaded
    /\ asks_to_generate(gen_last.message)

Failed == gen_last.response.kind \notin
              {"Generated teaching syllabus", "Updated teaching syllabus"}

\* C9: when an edit yields a syllabus that fails validation, current_syllabus
\* after process_message is the syllabus that was current before the edit.
\* (Stated for edits of a syllabus that is itself valid.)
C9_EditReplacesOnSuccessOnly ==
    (Edit /\ gen_last.response.kind = "Error validating updated syllabus"
        /\ _validate_syllabus(gen_last.pre.current_syllabus) = NoError)
        => current_syllabus = gen_last.pre.current_syllabus

\* C10: if current_syllabus is a valid syllabus and a generate or edit request
\* ends in an error result, current_syllabus is still that syllabus.
C10_FailureKeepsValidSyllabus ==
    ((Edit \/ Generation) /\ Failed
        /\ _validate_syllabus(gen_last.pre.current_syllabus) = NoError)
        => current_syllabus = gen_last.pre.current_syllabus

\* C11: whenever the generate path reports a generated syllabus, the object
\* it reports and stores as current_syllabus has passed the validator.
C11_GeneratedIsValidated ==
    (Generation /\ gen_last.response.kind = "Generated teaching syllabus")
        => /\ current_syllabus = gen_last.response.shown
           /\ _validate_syllabus(current_syllabus) = NoError

\* C12: after set_syllabus the index is 0, the session is not started and
\* the conversation handle is none.
C12_SetSyllabusResets ==
    last.op = "set_syllabus"
        => /\ current_stage_index = 0
           /\ ~is_teaching_started
           /\ chat_session = NoSession

\* The tutor's state apart from the transcript is what the operation began with.
StateUnchanged ==
    /\ syllabus_info = last.pre.syllabus_info
    /\ current_stage_index = last.pre.current_stage_index
    /\ is_teaching_started = last.pre.is_teaching_started
    /\ chat_session = last.pre.chat_session
    /\ chats = last.pre.chats

\* The closing call of end_teaching and what it was answered.
Closing == last.calls[1]

HasContent(reply) == reply.fmt = "object" /\ "response_content" \in reply.keys

\* The k-th entry the operation appended to the transcript it was handed.
Gained(k) == chat_history[last.pre.len + k]

\* The k-th stage (1-based) of the syllabus the operation started with.
StageOf(k) == last.pre.syllabus_info.syllabus[k]

\* C14: with a syllabus of two (or more) stages and well-formed responses,
\* start_teaching makes the transcript gain the greeting turn and then the
\* teach turn of stage 1; a user turn at stage 1 answered judge / pass makes
\* it gain the judge turn, paired with the learner's text, and then the
\* teach turn of stage 2, and leaves the index at 1.
C14_TwoStageScenario ==
    /\ (last.op = "start_teaching" /\ Truthy(last.pre.syllabus_info) /\ N >= 2
            /\ Len(last.calls) = 3
            /\ HasContent(last.calls[2].reply) /\ HasContent(last.calls[3].reply))
         => /\ Appended(2)
            /\ Gained(1) = Entry(NoText,
                   ContentOf(Prompt("admin", START_TEACHING, StageOf(1))))
            /\ Gained(2) = Entry(NoText,
                   ContentOf(Prompt("admin", START_STAGE, StageOf(1))))
            /\ current_stage_index = 0
            /\ is_teaching_started
    /\ (Turn /\ last.input_type = "user" /\ PreIndex = 0 /\ N >= 2
            /\ Answered(JUDGE_PASS))
         => /\ Len(last.calls) = 2
            /\ current_stage_index = 1
            /\ HasContent(last.calls[2].reply)
                 => /\ Appended(2)
                    /\ Gained(1) = Entry(last.input_content,
                           ContentOf(Prompt("user", last.input_content, StageOf(1))))
                    /\ Gained(2) = Entry(NoText,
                           ContentOf(Prompt("admin", START_STAGE, StageOf(2))))

\* Witness of C14: in a session started on a 2-stage syllabus (its chat
\* session was primed with that syllabus), a learner's answer at stage 1 is
\* judged as passed and the teach turn of stage 2 follows.
C14_Witness ==
    /\ Turn /\ last.input_type = "user" /\ PreIndex = 0 /\ N = 2
    /\ last.pre.is_teaching_started
    /\ last.pre.chat_session.primed = last.pre.syllabus_info
    /\ Answered(JUDGE_PASS)
    /\ Len(last.calls) = 2 /\ last.calls[2].reply = TEACH
    /\ Appended(2)
    /\ Gained(2).shown.prompt.stage = StageOf(2)
    /\ current_stage_index = 1

\* The response_content of the primary response of the turn (the apology of
\* the stand-in response when the call failed).
PrimaryContent ==
    IF last.calls[1].reply.fmt = "fail" THEN APOLOGY
    ELSE GetContent(ReplyText(last.calls[1].reply, last.calls[1].prompt))

\* The admin text is one of the two reserved commands, whatever its case.
Reserved == lower(last.input_content) \in {START_TEACHING, END_TEACHING}

\* The number of entries the follow-up teach call of the turn appended.
TeachEntries ==
    IF Len(last.calls) = 2 /\ last.calls[2].reply.fmt \in {"object", "fail"}
    THEN 1 ELSE 0

\* C15: when the primary response of a turn is a JSON object, a user turn
\* appends its content paired with the learner's text; an admin turn appends
\* it (with no learner text) only when the admin text is exactly 'start
\* teaching' or 'end teaching' in any case; for every other admin text the
\* primary response adds no entry: the transcript gains at most the entry of
\* the follow-up teach call.
C15_VisibilityRule ==
    (Turn /\ AnsweredObject)
        => /\ last.input_type = "user"
                => /\ Appended(1 + TeachEntries)
                   /\ Gained(1) = Entry(last.input_content, PrimaryContent)
           /\ (last.input_type = "admin" /\ Reserved)
                => /\ Appended(1 + TeachEntries)
                   /\ Gained(1) = Entry(NoText, PrimaryContent)
           /\ (last.input_type = "admin" /\ ~Reserved)
                => /\ Appended(TeachEntries)
                   /\ TeachEntries = 1
                        => Gained(1).shown \in
                              {APOLOGY, EMPTY,
                               ContentOf(last.calls[2].prompt)}

\* Witness of C15: the admin text 'start teaching now' contains a reserved
\* command but is not one, and its response is not shown.
C15_Witness ==
    /\ Turn /\ last.input_type = "admin"
    /\ last.input_content = <<"start", "teaching", "now">>
    /\ Answered(EXPLAIN)
    /\ last.pre.len = MaxHistory
    /\ Appended(0)

\* C16: a parsed model response that violates the turn-response shape is
\* treated as a failure: its content is not appended, the generic apology is
\* appended instead and the stage index is not changed.
C16_InvalidResponseIsFailure ==
    (Turn /\ last.input_type = "user" /\ Len(last.calls) >= 1
        /\ last.calls[1].reply.fmt = "object"
        /\ LET v == _validate_response(
                        Machine(<< >>),
                        ReplyText(last.calls[1].reply, last.calls[1].prompt))
           IN  v.raised = "" /\ ~v.valid)
        => /\ last.raised = ""
           /\ Appended(1)
           /\ Newest.shown = APOLOGY
           /\ current_stage_index = Resolved

\* What a learner observes of the session: the state of the service the
\* handlers of the learner's browser session are bound to, now and when the
\* operation in `last` began.
Observed(learner) ==
    <<syllabus_info, current_stage_index, is_teaching_started, chat_session>>
ObservedBefore(learner) ==
    <<last.pre.syllabus_info, last.pre.current_stage_index,
      last.pre.is_teaching_started, last.pre.chat_session>>

\* C17: no operation performed by one learner changes the syllabus, the
\* stage index, the started flag or the conversation handle observed by
\* another learner.
C17_NoSharingAcrossLearners ==
    \A learner \in Learners :
        (last.op # "idle" /\ learner # last.by)
            => Observed(learner) = ObservedBefore(learner)

\* The edit handed an object to _validate_syllabus: the object is the one
\* the response shows, and the response says whether it was rejected.
Validated ==
    /\ Edit
    /\ gen_last.response.kind \in
          {"Updated teaching syllabus", "Error validating updated syllabus"}
ValidatedObject == gen_last.response.shown
Rejected == gen_last.response.kind = "Error validating updated syllabus"

\* C19: _validate_syllabus rejects every syllabus whose 'syllabus' field is
\* missing, is not a list or is an empty list, and every syllabus without
\* syllabus_name or target_audience.
C19_RequiresNonEmptyStageList ==
    (Validated
        /\ \/ "syllabus" \notin ValidatedObject.keys
           \/ ~ValidatedObject.is_list
           \/ ValidatedObject.syllabus = << >>
           \/ "syllabus_name" \notin ValidatedObject.keys
           \/ "target_audience" \notin ValidatedObject.keys)
        => Rejected

\* The top-level checks pass: the three fields are there and 'syllabus' is a list.
TopLevelOk ==
    /\ SyllabusFields \subseteq ValidatedObject.keys
    /\ ValidatedObject.is_list

\* The stage lacks one of the seven fields or one of its two lists is a scalar.
Offending(stage) ==
    \/ stage.t # "dict"
    \/ ~(StageFields \subseteq stage.keys)
    \/ ~stage.jma_is_list
    \/ ~stage.tk_is_list

Offenders == { i \in DOMAIN ValidatedObject.syllabus :
                  Offending(ValidatedObject.syllabus[i]) }

\* Every element of the stage list is a stage object.
AllMappings == \A i \in DOMAIN ValidatedObject.syllabus :
                   ValidatedObject.syllabus[i].t = "dict"

\* C20: a syllabus with a stage that lacks one of the seven fields, or whose
\* judge_media_allowed or teaching_knowledge is not a list, is rejected with
\* a message that names the first such stage (and, for a missing field, a
\* field that stage lacks); a syllabus whose stages all have the seven
\* fields and the two lists, empty or not, is accepted.  (An element of the
\* stage list that is not a stage object makes the syllabus rejected too; the
\* naming of the stage is stated for lists of stage objects.)
C20_PerStageValidation ==
    (Validated /\ TopLevelOk)
        => /\ Offenders # {}
                => /\ Rejected
                   /\ AllMappings => gen_last.response.detail.stage \in Offenders
                   /\ \A i \in Offenders : gen_last.response.detail.stage <= i
                   /\ gen_last.response.detail.field # ""
                        => gen_last.response.detail.field \notin
                              ValidatedObject.syllabus[gen_last.response.detail.stage].keys
           /\ Offenders = {} => ~Rejected

\* Witness of C20: stage 1 has a scalar teaching_knowledge and stage 2 lacks
\* fields; the message names stage 1.
C20_Witness ==
    /\ Validated /\ ValidatedObject = TwoOffenders
    /\ Rejected
    /\ gen_last.response.detail =
          ErrorMessage("Stage {i+1}: 'teaching_knowledge' must be a list", 1, "")
    /\ current_syllabus = TwoOffenders

\* Threads whose turn has begun and not yet returned, and threads with a
\* model call in flight.
Running == { t \in Threads : turns[t].pc # "idle" }
InFlight == { t \in Threads : turns[t].pc \in {"sending", "teaching"} }

\* C18: a turn, with its follow-up teach call, completes before the next
\* turn begins: at most one turn is running and at most one model call is in
\* flight at any time, and a learner's turn that has advanced the stage
\* leaves the index at most at N-1.
C18_TurnsAreSequential ==
    /\ Cardinality(Running) <= 1
    /\ Cardinality(InFlight) <= 1
    /\ \A t \in Threads :
          (turns[t].input_type = "user" /\ turns[t].stage_updated = "true")
              => current_stage_index <= NumStages(syllabus_info) - 1

\* The request went to the schema-less fallback call and that call returned
\* a text, which the extraction was applied to.
Extraction ==
    /\ gen_last.op = "process_message"
    /\ gen_last.calls = 2
    /\ ~gen_last.second.raises
ExtractedText == gen_last.second.text

\* What the extraction returned: a generation stores it, an edit shows it
\* (an edit whose extraction returned an error value shows nothing).
Extracted == IF Generation THEN current_syllabus ELSE gen_last.response.shown

\* The text is the JSON document of object o with prose before and after it.
Wraps(text, o) ==
    \E i \in 1..Len(text) :
        /\ i + 2 <= Len(text)
        /\ SubSeq(text, i, i + 2) = Serialize(o)
        /\ \A k \in (1..(i - 1)) \cup ((i + 3)..Len(text)) : text[k].c # "members"

\* C21: extraction returns the parsed object for clean structured text
\* (parse(serialize(x)) = x), and for a JSON object wrapped in arbitrary
\* leading and trailing prose it returns the same object as for the bare
\* text.
C21_LayeredExtraction ==
    /\ \A o \in ModelObjects : json_loads(Serialize(o)) = [ok |-> TRUE, value |-> o]
    /\ Extraction
         => \A o \in ModelObjects :
                (o.t = "dict" /\ Wraps(ExtractedText, o)) => Extracted = o

\* The syllabus the turn started with is a dict whose stage cannot be resolved.
Unresolvable ==
    \/ "syllabus" \notin last.pre.syllabus_info.keys
    \/ ~last.pre.syllabus_info.is_list
    \/ last.pre.syllabus_info.syllabus = << >>

\* C22: when a syllabus is loaded but its current stage cannot be resolved
\* (no 'syllabus' key, or a stage list that is not a list or is empty),
\* process_message appends exactly one fixed error message, makes no model
\* call and leaves the session state unchanged.
C22_UnresolvableStage ==
    (Turn /\ Unresolvable)
        => /\ Appended(1)
           /\ Newest = Entry(IF last.input_type = "user" THEN last.input_content
                             ELSE NoText, STAGE_ERROR)
           /\ last.calls = << >>
           /\ last.raised = ""
           /\ last.stage_updated = "none"
           /\ StateUnchanged

\* Witness of C22: a learner's turn on a syllabus whose stage list is empty,
\* in a session that was started.
C22_Witness ==
    /\ Turn /\ last.pre.syllabus_info = NoStages
    /\ last.pre.is_teaching_started
    /\ last.input_type = "user"
    /\ Newest.shown = STAGE_ERROR
    /\ last.calls = << >>

\* C24: a turn that starts with the index at or past N (N >= 1) resolves
\* the last stage: its model call carries stage N-1, and the index is N-1
\* after the turn unless the turn itself moved the stage from there.
C24_OutOfBoundsIsClamped ==
    (Turn /\ N >= 1 /\ PreIndex >= N)
        => /\ Len(last.calls) >= 1
           /\ last.calls[1].prompt.stage = StageOf(N)
           /\ last.calls[1].prompt.input_content = last.input_content
           /\ last.stage_updated # "true" => current_stage_index = N - 1
           /\ last.stage_updated = "true" => current_stage_index \in {N - 2, N}

\* Witness of C24: a learner's turn that starts with the index at N.
C24_Witness ==
    /\ Turn /\ N >= 2 /\ PreIndex = N
    /\ last.input_type = "user" /\ Answered(EXPLAIN)
    /\ last.calls[1].prompt.stage = StageOf(N)
    /\ current_stage_index = N - 1

\* The number of entries the primary response of the turn appended.
PrimaryEntries == IF last.input_type = "user" \/ Reserved THEN 1 ELSE 0

\* The response_content of the k-th model call of the operation.
ContentOfCall(k) ==
    IF last.calls[k].reply.fmt = "fail" THEN APOLOGY
    ELSE GetContent(ReplyText(last.calls[k].reply, last.calls[k].prompt))

\* C23: whenever a turn changes the stage (to a stage of the syllabus),
\* exactly one additional model call is made for the destination stage and
\* exactly one extra transcript entry holding its content is appended after
\* the entry of the primary response.
C23_TransitionAppendsTeachTurn ==
    (Turn /\ last.raised = "" /\ Len(last.calls) >= 1
        /\ current_stage_index # Resolved
        /\ 0 <= current_stage_index /\ current_stage_index <= N - 1)
        => /\ Len(last.calls) = 2
           /\ last.calls[2].prompt =
                  Prompt("admin", START_STAGE, StageOf(current_stage_index + 1))
           /\ Appended(PrimaryEntries + 1)
           /\ Newest = Entry(NoText, ContentOfCall(2))

\* The stage a given index resolves to: an index past the end is the last stage.
ResolvedAfter == Min(current_stage_index, N - 1)

\* C29: the flag process_message returns is true exactly when the current
\* stage after the turn differs from the current stage before it; it is not
\* true for an advance requested at the last stage or a retreat at stage 0.
C29_TransitionFlagIsAccurate ==
    (Turn /\ N >= 1 /\ last.raised = "" /\ Len(last.calls) >= 1)
        => (last.stage_updated = "true" <=> ResolvedAfter # Resolved)

\* The handles the model calls of the operation were sent on.
HandlesUsed == { last.calls[k].session : k \in DOMAIN last.calls }

\* C25: outside start_teaching, when a conversation handle exists every
\* model call of an operation is sent on it and it stays the handle; when
\* none exists the first send creates one and the later calls use it.
\* start_teaching sends its three calls on the one handle it allocates.  A
\* handle is replaced only by start_teaching.
C25_ConversationContinuity ==
    /\ (last.op \in {"process_message", "end_teaching"}
            /\ last.pre.chat_session.id # 0)
         => /\ HandlesUsed \subseteq {last.pre.chat_session.id}
            /\ chat_session.id = last.pre.chat_session.id
            /\ chats = last.pre.chats
    /\ (last.op \in {"process_message", "end_teaching"}
            /\ last.pre.chat_session.id = 0 /\ last.calls # << >>)
         => /\ HandlesUsed = {last.pre.chats + 1}
            /\ chat_session.id = last.pre.chats + 1
            /\ chats = last.pre.chats + 1
    /\ (last.op = "start_teaching" /\ Truthy(last.pre.syllabus_info))
         => /\ HandlesUsed = {last.pre.chats + 1}
            /\ chat_session.id = last.pre.chats + 1
    /\ (last.op # "idle" /\ chat_session.id # last.pre.chat_session.id)
         => \/ last.op = "start_teaching"
            \/ last.pre.chat_session.id = 0 /\ last.calls # << >>

\* Witness of C25: a turn with a follow-up teach call, in a session whose
\* handle start_teaching allocated and primed: both calls go on that handle.
C25_Witness ==
    /\ Turn /\ last.pre.is_teaching_started
    /\ last.pre.chat_session.id = 2
    /\ last.pre.chat_session.first = "system"
    /\ Len(last.calls) = 2
    /\ HandlesUsed = {2}
    /\ chat_session.id = 2

\* The fixed messages of the tutor; the empty string is what
\* .get('response_content', '') gives for an object without that field.
FixedMessages ==
    {GUIDANCE, GUIDANCE_START, STAGE_ERROR, WELCOME, LETS_BEGIN, FAREWELL,
     APOLOGY, EMPTY}

\* The response_content of the texts of this operation that parsed to an
\* object (the priming call's text is never parsed).
ParsedContents ==
    { ContentOfCall(k) :
        k \in { j \in DOMAIN last.calls :
                  /\ ~last.calls[j].is_system
                  /\ last.calls[j].reply.fmt \in {"object", "fail"} } }

\* C27: every entry an operation of the tutor appends to the transcript
\* shows either the response_content of a text of that operation that parsed
\* to an object, or one of the fixed messages; the entries it was handed are
\* kept.  A text that did not parse is never shown.
C27_RawTextNeverShown ==
    last.op # "idle"
      => /\ Len(chat_history) >= last.pre.len
         /\ SubSeq(chat_history, 1, last.pre.len) \in Transcripts
         /\ \A k \in 1..(Len(chat_history) - last.pre.len) :
                Gained(k).shown \in FixedMessages \cup ParsedContents

\* Witness of C27: a turn advanced the stage and the text of the follow-up
\* teach call did not parse: the transcript gained the primary content only.
C27_Witness ==
    /\ Turn /\ last.raised = ""
    /\ Len(last.calls) = 2
    /\ last.calls[2].reply = GARBLED
    /\ Appended(1)
    /\ Newest.shown = ContentOfCall(1)
    /\ Newest.shown \notin FixedMessages

\* The messages _validate_syllabus can return.
ValidatorMessages ==
    {"Missing required field: {field}",
     "The 'syllabus' field must be a list of stages",
     "Stage {i+1} is missing required field: {field}",
     "Stage {i+1}: 'judge_media_allowed' must be a list",
     "Stage {i+1}: 'teaching_knowledge' must be a list",
     "Validation error: {e}"}

\* The values _validate_syllabus may be handed.
ValidatorInputs == ModelObjects \cup {None, ErrorDict("Failed to update syllabus")}

\* C28: for every input, stage lists with elements that are not mappings
\* included, _validate_syllabus returns None or one of its messages and no
\* exception escapes it; an edit that reaches the validator answers with the
\* validator's verdict on the object it shows, that object is the current
\* syllabus as the validator was handed it, and the document fields of the
\* generator are unchanged; the handler's own except clause answers only
\* edits that left the current syllabus as it was.
C28_ValidationNeverThrows ==
    /\ \A o \in ValidatorInputs :
           \/ _validate_syllabus(o) = NoError
           \/ _validate_syllabus(o).text \in ValidatorMessages
    /\ (Edit /\ gen_last.response.kind = "Error updating syllabus")
         => current_syllabus = gen_last.pre.current_syllabus
    /\ Validated
         => /\ current_syllabus = ValidatedObject
            /\ ValidatedObject \in ModelObjects
            /\ gen_last.response.detail = _validate_syllabus(ValidatedObject)
            /\ Rejected <=> gen_last.response.detail # NoError
            /\ document_url = gen_last.pre.document_url
            /\ document_uploaded = gen_last.pre.document_uploaded

\* Witness of C28: an edit returned a syllabus whose only stage is a
\* number; the answer quotes the validator's message for the exception.
C28_Witness ==
    /\ Validated /\ ValidatedObject = NumberStage
    /\ Rejected
    /\ gen_last.response.detail = ErrorMessage("Validation error: {e}", 0, "")
    /\ current_syllabus = NumberStage

\* The texts the operation parsed came from a call that failed, or are a
\* JSON object, or are not JSON.
CoveredOutcomes ==
    \A k \in DOMAIN last.calls :
        last.calls[k].is_system
          \/ last.calls[k].reply.fmt \in {"object", "garbled", "fail"}

\* What the operation shows for its k-th call: the content of the response,
\* or the fixed text given when the text is not JSON.
ShownFor(k, fallback) ==
    IF last.calls[k].reply.fmt = "garbled" THEN fallback ELSE ContentOfCall(k)

RetryCalls == { CallFails, Returns(Serialize(Syllabus("A", 1))), Returns(<<PROSE>>) }

\* The first attempt gave a result: no exception and a text that parses.
FirstAttemptSucceeds(first) == ~first.raises /\ json_loads(first.text).ok

C31_TransitionsOnlyWhenStarted ==
    (Turn /\ ~last.pre.is_teaching_started)
        => current_stage_index = last.pre.current_stage_index

\* C32: every model call of a turn is sent on a conversation handle whose
\* first message was the priming prompt, and that prompt carried the
\* syllabus that is loaded when the turn is processed.
C32_PrimingPrecedesEveryTurn ==
    Turn => \A k \in DOMAIN last.calls :
                /\ last.calls[k].first = "system"
                /\ last.calls[k].primed = last.pre.syllabus_info

\* The service as the operation in `last` found it.
PreMachine ==
    [syllabus_info |-> last.pre.syllabus_info,
     current_stage_index |-> last.pre.current_stage_index,
     is_teaching_started |-> last.pre.is_teaching_started,
     chat_session |-> last.pre.chat_session,
     chat_history |-> [i \in 1..last.pre.len |-> EARLIER],
     chats |-> last.pre.chats,
     calls |-> << >>,
     raised |-> "",
     stage_updated |-> "none"]

\* The reply the k-th call of the operation got (TEACH when it made none).
ReplyOfCall(k) == IF Len(last.calls) >= k THEN last.calls[k].reply ELSE TEACH

\* The same user turn, with the same model responses, had the learner
\* typed `text` instead.
SameTurnWith(text) ==
    process_message(PreMachine, "user", text, ReplyOfCall(1), ReplyOfCall(2))

\* A user turn ends in the same stage index whatever the learner typed.
TextIndependent ==
    (Turn /\ last.input_type = "user")
        => \A text \in UserTexts :
               SameTurnWith(text).current_stage_index = current_stage_index

\* C33: a user turn ends in the same stage index whatever its text is
\* ('next stage' included), and it changes the index only when the model
\* answered judge with is_pass = true.
C33_LearnerCannotCommand ==
    /\ TextIndependent
    /\ (Turn /\ last.input_type = "user"
            /\ current_stage_index # last.pre.current_stage_index)
         => /\ Len(last.calls) >= 1
            /\ last.calls[1].reply.fmt = "object"
            /\ last.calls[1].reply.response_type = "judge"
            /\ "is_pass" \in last.calls[1].reply.keys
            /\ last.calls[1].reply.is_pass

\* C34: after a user turn current_stage_index is the value it had before
\* the turn or that value plus one.
C34_UserTurnMovesAtMostOneForward ==
    (Turn /\ last.input_type = "user")
        => current_stage_index \in {PreIndex, PreIndex + 1}

\* The kinds of chat message that report a syllabus as generated or updated.
SuccessKinds == {"Generated teaching syllabus", "Updated teaching syllabus"}

\* C35: the syllabus handle_start_teaching passes to set_syllabus is the one
\* marked as ready, and it was read from a chat message that reports a
\* generated or an updated syllabus, never from a validation-error message.
C35_RejectedSyllabusNeverTaught ==
    last.op = "set_syllabus"
        => /\ syllabus_info = syllabus_data
           /\ syllabus_found_in \in SuccessKinds

\* C36: in every state document_uploaded implies that document_url is a
\* document reference (not None), and every generation is handed one.
C36_UploadStateConsistent ==
    /\ document_uploaded => document_url # ""
    /\ Generation => gen_last.pre.document_url # ""

\* A syllabus exists: current_syllabus held a syllabus object when the
\* message arrived (not None, not an error dict, not another JSON value).
SyllabusExists ==
    /\ gen_last.pre.current_syllabus.t = "dict"
    /\ gen_last.pre.current_syllabus.keys # {}
    /\ ~HasError(gen_last.pre.current_syllabus)

GenerationKinds == {"Generated teaching syllabus", "Error", "Error generating syllabus"}
EditKinds == {"Updated teaching syllabus", "Error", "Error updating syllabus",
              "Error validating updated syllabus"}

\* The message left the generator as it was and made no model call.
Declined(kind) ==
    /\ gen_last.calls = 0
    /\ gen_last.response = Response(kind, None)
    /\ Generator = gen_last.pre

\* The three-way dispatch of process_message once a document is uploaded.
DispatchOfGenerate ==
    Generation => gen_last.response.kind \in GenerationKinds
DispatchOfOther(exists) ==
    (gen_last.op = "process_message" /\ gen_last.pre.document_uploaded
        /\ ~asks_to_generate(gen_last.message))
        => IF exists
           THEN gen_last.response.kind \in EditKinds /\ gen_last.calls >= 1
           ELSE Declined("Please generate a syllabus first")

\* C37: before a document is uploaded a chat message makes no model call; a
\* message that matches generate/create ... syllabus runs the generation,
\* whether a syllabus exists or not; any other message runs an edit when a
\* syllabus exists and otherwise makes no model call and asks to generate
\* one first.
C37_SyllabusChatDispatch ==
    /\ (gen_last.op = "process_message" /\ ~gen_last.pre.document_uploaded)
         => Declined("Please upload a document first")
    /\ DispatchOfGenerate
    /\ DispatchOfOther(SyllabusExists)

\* C38: in a started session on a syllabus of N >= 1 stages, with no admin
\* turns and every user turn answered judge / is_pass = true, the stage
\* index eventually is N-1 and from then on stays N-1.
C38_ProgressUnderPassingAnswers ==
    (is_teaching_started /\ NumStages(syllabus_info) >= 1)
        ~> [](current_stage_index = NumStages(syllabus_info) - 1)

\* Witness of C38: a passing user turn of a started session moved the index
\* from N-2 to the last stage N-1.
C38_Witness ==
    /\ Turn /\ last.input_type = "user" /\ Answered(JUDGE_PASS)
    /\ last.pre.is_teaching_started
    /\ N >= 2 /\ PreIndex = N - 2
    /\ current_stage_index = N - 1

\* The shape the validator is said to accept: stage_id, response_type and
\* response_content present, response_type one of the four kinds, and
\* is_pass present when the kind is judge.
TurnResponseShape(response) ==
    /\ {"stage_id", "response_type", "response_content"} \subseteq response.keys
    /\ response.response_type \in {"teach", "explain", "judge", "greet"}
    /\ response.response_type = "judge" => "is_pass" \in response.keys

ValidatorReturned == last.op = "_validate_response"

\* The stage_id the current stage carries, 0 when no stage is current.
CurrentStageId ==
    IF Truthy(syllabus_info) /\ syllabus_info.is_list
       /\ current_stage_index < NumStages(syllabus_info)
    THEN current_stage_index + 1 ELSE 0

\* C39: _validate_response returns, and accepts exactly the objects of the
\* turn-response shape, whatever their stage_id; it changes no session state.
C39_ValidatorAcceptsExactlyTheShape ==
    ValidatorReturned =>
        /\ validation.raised = ""
        /\ validation.valid <=> TurnResponseShape(validation.response)
        /\ Pre(<< >>) = last.pre

\* The parts of C39 that hold: nothing but the shape is accepted, a
\* stage_id that differs from the current stage's rejects nothing, every
\* object of the shape other than a teach response with empty content is
\* accepted when the validator returns, and no session state changes.
C39_HoldsApartFromEmptyTeach ==
    ValidatorReturned =>
        /\ validation.valid => TurnResponseShape(validation.response)
        /\ (validation.raised = "" /\ TurnResponseShape(validation.response)
              /\ ~(validation.response.response_type = "teach"
                    /\ validation.response.response_content = EMPTY))
             => validation.valid
        /\ Pre(<< >>) = last.pre

\* A response of the shape, carrying another stage's id, was accepted.
C39_OtherStageAccepted ==
    /\ ValidatorReturned /\ validation.valid
    /\ CurrentStageId # 0
    /\ validation.response.stage_id # CurrentStageId

\* A teach response of the shape with empty content was rejected.
C39_EmptyTeachRejected ==
    /\ ValidatorReturned /\ validation.raised = "" /\ ~validation.valid
    /\ TurnResponseShape(validation.response)
    /\ validation.response.response_type = "teach"
    /\ validation.response.response_content = EMPTY

====
